---- MODULE Spec2Model ----
(***************************************************************************)
(* Model of package lrucache (src/lrucache/lrucache.go): a bounded         *)
(* key/value cache whose entries are threaded on two intrusive doubly      *)
(* linked lists, the LRU (recency) list and the expiry (age) list, and     *)
(* indexed by a map.                                                       *)
(*                                                                         *)
(* Strings are modelled by small integers, the empty string "" by 0.       *)
(* time.Time is a natural number, the zero time.Time is 0 and the clock    *)
(* starts at 1.  Pointers are addresses into `heap`; &c.head and &c.tail   *)
(* are the fixed addresses HEAD and TAIL, nil is NIL.                      *)
(***************************************************************************)
EXTENDS Integers, Sequences, FiniteSets, TLC

\* ---------------------------------------------------------------- bounds
NumKeys == 3
NumValues == 2
MaxCap == 2
MaxTtl == 1
MaxTime == 3
NumScenarioKeys == 4
MaxEntries == 3
NumThreads == 2
MaxCalls == 2

Keys == 1..NumKeys
Values == 1..NumValues
ScenarioKeys == 1..NumScenarioKeys
Threads == 1..NumThreads

\* ------------------------------------------------------------- constants
EmptyString == 0
ZeroTime == 0
NIL == 0 - 1
HEAD == 0
TAIL == 1

\* c     the lruCache: maxSize, ttl, the index m (key -> address) and the
\*       heap of lruCacheEntry records, c.head and c.tail among them;
\*       c.panic is set once a call has panicked.
\* now   the wall clock, what time.Now() returns.
\* last  the latest call: its name, arguments and results, the clock value
\*       t it started at and the cache `pre` it started from.
\* sc    the bookkeeping of the test runs (see SpecFill).
\* mu    the sync.Mutex embedded in lruCache: 0 unlocked, 1 locked.
\* th    per goroutine, the call it is executing: its position pc, its
\*       arguments, its local variables (e, ok, value) and its clock reads.
\* lin   the cache that the completed calls produce when each is run as
\*       one step, in the order in which they took the lock.
VARIABLES c, now, last, sc, mu, th, lin, hist

vars == <<c, now, last, sc, mu, th, lin, hist>>

\* ------------------------------------------------------------ lruCacheEntry
\* The zero value of lruCacheEntry (c.head and c.tail start as this).
ZeroEntry ==
  [key |-> EmptyString, value |-> EmptyString, expiry |-> ZeroTime,
   lruPrev |-> NIL, lruNext |-> NIL, expPrev |-> NIL, expNext |-> NIL]

\* IsExpired that already reports an entry expired at its deadline.
IsExpiredAtDeadline(e, t) ==
  IF e.expiry = ZeroTime THEN FALSE ELSE t >= e.expiry

\* e.IsExpired() with time.Now() = t
IsExpired(e, t) ==
  IF e.expiry = ZeroTime THEN FALSE ELSE t > e.expiry

\* &lruCacheEntry{...}: the address of a freshly allocated entry.  Any free
\* address may be returned; the entry of key k is placed at k + 1 whenever
\* that address is free (the previous entry of k has been unlinked by then).
alloc(heap, key) ==
  IF (key + 1) \notin DOMAIN heap
    THEN key + 1
    ELSE CHOOSE a \in 2..(2 * (NumKeys + NumScenarioKeys) + 2) : a \notin DOMAIN heap

\* ------------------------------------------------------------------ New
NewPanics(maxSize, ttl) == maxSize < 0 \/ ttl < 0

New(maxSize, ttl) ==
  [maxSize |-> maxSize,
   ttl |-> ttl,
   m |-> <<>>,
   heap |-> (HEAD :> [ZeroEntry EXCEPT !.lruNext = TAIL, !.expNext = TAIL])
         @@ (TAIL :> [ZeroEntry EXCEPT !.lruPrev = HEAD, !.expPrev = HEAD]),
   panic |-> FALSE]

\* ------------------------------------------------------- delist / delete
\* delist that unlinks the entry from the LRU list only.
delistLruOnly(cc, e) ==
  IF e = NIL \/ e = HEAD \/ e = TAIL
    THEN [cc EXCEPT !.panic = TRUE]
    ELSE
      LET h0 == cc.heap
          h1 == [h0 EXCEPT ![h0[e].lruPrev].lruNext = h0[e].lruNext]
          h2 == [h1 EXCEPT ![h1[e].lruNext].lruPrev = h1[e].lruPrev]
      IN [cc EXCEPT !.heap = h2]

\* delist removes the entry at address e from both lists; it panics on nil,
\* head or tail.
delist(cc, e) ==
  IF e = NIL \/ e = HEAD \/ e = TAIL
    THEN [cc EXCEPT !.panic = TRUE]
    ELSE
      LET h0 == cc.heap
          h1 == [h0 EXCEPT ![h0[e].lruPrev].lruNext = h0[e].lruNext]
          h2 == [h1 EXCEPT ![h1[e].lruNext].lruPrev = h1[e].lruPrev]
          h3 == [h2 EXCEPT ![h2[e].expPrev].expNext = h2[e].expNext]
          h4 == [h3 EXCEPT ![h3[e].expNext].expPrev = h3[e].expPrev]
      IN [cc EXCEPT !.heap = h4]

\* delete(c.m, key)
mapDelete(m, key) == [k \in (DOMAIN m) \ {key} |-> m[k]]

\* The entry is unreachable once delete returns: its storage is released.
free(heap, e) == [a \in (DOMAIN heap) \ {e} |-> heap[a]]

\* delete that unlinks the entry but leaves its key in the index.
deleteKeepsIndex(cc, e) ==
  delist(cc, e)

\* delete that drops the key from the index and leaves the entry linked.
deleteIndexOnly(cc, e) ==
  IF e = NIL \/ e = HEAD \/ e = TAIL
    THEN [cc EXCEPT !.panic = TRUE]
    ELSE [cc EXCEPT !.m = mapDelete(cc.m, cc.heap[e].key)]

delete(cc, e) ==
  LET c1 == delist(cc, e)
  IN IF c1.panic
       THEN c1
       ELSE [c1 EXCEPT !.m = mapDelete(c1.m, c1.heap[e].key),
                       !.heap = free(c1.heap, e)]

\* ----------------------------------------------------------------- trim
\* trim that lets the cache grow one entry past maxSize.
trimOffByOne(cc, t) ==
  IF cc.maxSize <= 0 \/ Cardinality(DOMAIN cc.m) <= cc.maxSize + 1
    THEN cc
    ELSE IF IsExpired(cc.heap[cc.heap[TAIL].expPrev], t)
      THEN delete(cc, cc.heap[TAIL].expPrev)
      ELSE delete(cc, cc.heap[TAIL].lruPrev)

\* trim that already evicts when the cache is exactly full.
trimAtCapacity(cc, t) ==
  IF cc.maxSize <= 0 \/ Cardinality(DOMAIN cc.m) < cc.maxSize
    THEN cc
    ELSE IF IsExpired(cc.heap[cc.heap[TAIL].expPrev], t)
      THEN delete(cc, cc.heap[TAIL].expPrev)
      ELSE delete(cc, cc.heap[TAIL].lruPrev)

\* trim that looks for an expired entry at the wrong end of the age list.
trimChecksNewest(cc, t) ==
  IF cc.maxSize <= 0 \/ Cardinality(DOMAIN cc.m) <= cc.maxSize
    THEN cc
    ELSE IF IsExpired(cc.heap[cc.heap[HEAD].expNext], t)
      THEN delete(cc, cc.heap[HEAD].expNext)
      ELSE delete(cc, cc.heap[TAIL].lruPrev)

\* trim that always evicts the least recently used entry.
trimLruOnly(cc, t) ==
  IF cc.maxSize <= 0 \/ Cardinality(DOMAIN cc.m) <= cc.maxSize
    THEN cc
    ELSE delete(cc, cc.heap[TAIL].lruPrev)

\* trim that evicts from the wrong end of the recency list.
trimEvictsNewest(cc, t) ==
  IF cc.maxSize <= 0 \/ Cardinality(DOMAIN cc.m) <= cc.maxSize
    THEN cc
    ELSE IF IsExpired(cc.heap[cc.heap[TAIL].expPrev], t)
      THEN delete(cc, cc.heap[TAIL].expPrev)
      ELSE delete(cc, cc.heap[HEAD].lruNext)

\* trim with time.Now() = t
trim(cc, t) ==
  IF cc.maxSize <= 0 \/ Cardinality(DOMAIN cc.m) <= cc.maxSize
    THEN cc
    ELSE IF IsExpired(cc.heap[cc.heap[TAIL].expPrev], t)
      THEN delete(cc, cc.heap[TAIL].expPrev)
      ELSE delete(cc, cc.heap[TAIL].lruPrev)

\* ------------------------------------------------------------------ Put
\* Put that links the new entry without deleting the old one of the key.
PutNoDelete(cc, key, value, t1, t2) ==
  LET h0 == cc.heap
      a == alloc(h0, key)
      e == [key |-> key,
            value |-> value,
            expiry |-> IF cc.ttl > 0 THEN t1 + cc.ttl ELSE ZeroTime,
            lruPrev |-> HEAD,
            lruNext |-> h0[HEAD].lruNext,
            expPrev |-> HEAD,
            expNext |-> h0[HEAD].expNext]
      h1 == (a :> e) @@ h0
      m1 == (key :> a) @@ cc.m
      h2 == [h1 EXCEPT ![h1[HEAD].lruNext].lruPrev = a]
      h3 == [h2 EXCEPT ![HEAD].lruNext = a]
      h4 == [h3 EXCEPT ![h3[HEAD].expNext].expPrev = a]
      h5 == [h4 EXCEPT ![HEAD].expNext = a]
  IN trim([cc EXCEPT !.m = m1, !.heap = h5], t2)

\* Put that overwrites the value of an existing entry where it stands.
PutInPlace(cc, key, value, t1, t2) ==
  IF key \in DOMAIN cc.m
    THEN [cc EXCEPT !.heap[cc.m[key]].value = value]
    ELSE
      LET h0 == cc.heap
          a == alloc(h0, key)
          e == [key |-> key,
                value |-> value,
                expiry |-> IF cc.ttl > 0 THEN t1 + cc.ttl ELSE ZeroTime,
                lruPrev |-> HEAD,
                lruNext |-> h0[HEAD].lruNext,
                expPrev |-> HEAD,
                expNext |-> h0[HEAD].expNext]
          h1 == (a :> e) @@ h0
          m1 == (key :> a) @@ cc.m
          h2 == [h1 EXCEPT ![h1[HEAD].lruNext].lruPrev = a]
          h3 == [h2 EXCEPT ![HEAD].lruNext = a]
          h4 == [h3 EXCEPT ![h3[HEAD].expNext].expPrev = a]
          h5 == [h4 EXCEPT ![HEAD].expNext = a]
      IN trim([cc EXCEPT !.m = m1, !.heap = h5], t2)

\* Put(key, value); t1 is the clock read that stamps the expiry, t2 >= t1
\* the clock read of trim.
Put(cc, key, value, t1, t2) ==
  LET c1 == IF key \in DOMAIN cc.m THEN delete(cc, cc.m[key]) ELSE cc
      h0 == c1.heap
      a == alloc(h0, key)
      e == [key |-> key,
            value |-> value,
            expiry |-> IF cc.ttl > 0 THEN t1 + cc.ttl ELSE ZeroTime,
            lruPrev |-> HEAD,
            lruNext |-> h0[HEAD].lruNext,
            expPrev |-> HEAD,
            expNext |-> h0[HEAD].expNext]
      h1 == (a :> e) @@ h0
      m1 == (key :> a) @@ c1.m
      h2 == [h1 EXCEPT ![h1[HEAD].lruNext].lruPrev = a]
      h3 == [h2 EXCEPT ![HEAD].lruNext = a]
      h4 == [h3 EXCEPT ![h3[HEAD].expNext].expPrev = a]
      h5 == [h4 EXCEPT ![HEAD].expNext = a]
  IN IF c1.panic
       THEN c1
       ELSE trim([c1 EXCEPT !.m = m1, !.heap = h5], t2)

\* ------------------------------------------------------------------ Get
\* Get that returns entries whatever their age.
GetIgnoresExpiry(cc, key, t) ==
  IF key \notin DOMAIN cc.m
    THEN [c |-> cc, value |-> EmptyString, ok |-> FALSE]
    ELSE
      LET e == cc.m[key]
          h0 == cc.heap
          h1 == [h0 EXCEPT ![h0[e].lruPrev].lruNext = h0[e].lruNext]
          h2 == [h1 EXCEPT ![h1[e].lruNext].lruPrev = h1[e].lruPrev]
          h3 == [h2 EXCEPT ![e].lruPrev = HEAD]
          h4 == [h3 EXCEPT ![e].lruNext = h3[HEAD].lruNext]
          h5 == [h4 EXCEPT ![h4[HEAD].lruNext].lruPrev = e]
          h6 == [h5 EXCEPT ![HEAD].lruNext = e]
      IN [c |-> [cc EXCEPT !.heap = h6], value |-> h0[e].value, ok |-> TRUE]

\* Get that hides an expired entry but leaves it in the cache.
GetNoPurge(cc, key, t) ==
  IF key \notin DOMAIN cc.m
    THEN [c |-> cc, value |-> EmptyString, ok |-> FALSE]
    ELSE
      LET e == cc.m[key]
          h0 == cc.heap
      IN IF IsExpired(h0[e], t)
           THEN [c |-> cc, value |-> EmptyString, ok |-> FALSE]
           ELSE
             LET h1 == [h0 EXCEPT ![h0[e].lruPrev].lruNext = h0[e].lruNext]
                 h2 == [h1 EXCEPT ![h1[e].lruNext].lruPrev = h1[e].lruPrev]
                 h3 == [h2 EXCEPT ![e].lruPrev = HEAD]
                 h4 == [h3 EXCEPT ![e].lruNext = h3[HEAD].lruNext]
                 h5 == [h4 EXCEPT ![h4[HEAD].lruNext].lruPrev = e]
                 h6 == [h5 EXCEPT ![HEAD].lruNext = e]
             IN [c |-> [cc EXCEPT !.heap = h6], value |-> h0[e].value, ok |-> TRUE]

\* Get that moves the entry it returns to the head of both lists.
GetPromotesAge(cc, key, t) ==
  IF key \notin DOMAIN cc.m
    THEN [c |-> cc, value |-> EmptyString, ok |-> FALSE]
    ELSE
      LET e == cc.m[key]
          h0 == cc.heap
      IN IF IsExpired(h0[e], t)
           THEN [c |-> delete(cc, e), value |-> EmptyString, ok |-> FALSE]
           ELSE
             LET h1 == delist(cc, e).heap
                 h2 == [h1 EXCEPT ![e].lruPrev = HEAD, ![e].expPrev = HEAD]
                 h3 == [h2 EXCEPT ![e].lruNext = h2[HEAD].lruNext,
                                  ![e].expNext = h2[HEAD].expNext]
                 h4 == [h3 EXCEPT ![h3[HEAD].lruNext].lruPrev = e]
                 h5 == [h4 EXCEPT ![h4[HEAD].expNext].expPrev = e]
                 h6 == [h5 EXCEPT ![HEAD].lruNext = e, ![HEAD].expNext = e]
             IN [c |-> [cc EXCEPT !.heap = h6], value |-> h0[e].value, ok |-> TRUE]

\* Get that gives the entry it returns a new lease of ttl.
GetSlidingExpiry(cc, key, t) ==
  IF key \notin DOMAIN cc.m
    THEN [c |-> cc, value |-> EmptyString, ok |-> FALSE]
    ELSE
      LET e == cc.m[key]
          h0 == cc.heap
      IN IF IsExpired(h0[e], t)
           THEN [c |-> delete(cc, e), value |-> EmptyString, ok |-> FALSE]
           ELSE
             LET h1 == [h0 EXCEPT ![h0[e].lruPrev].lruNext = h0[e].lruNext]
                 h2 == [h1 EXCEPT ![h1[e].lruNext].lruPrev = h1[e].lruPrev]
                 h3 == [h2 EXCEPT ![e].lruPrev = HEAD]
                 h4 == [h3 EXCEPT ![e].lruNext = h3[HEAD].lruNext]
                 h5 == [h4 EXCEPT ![h4[HEAD].lruNext].lruPrev = e]
                 h6 == [h5 EXCEPT ![HEAD].lruNext = e]
                 h7 == [h6 EXCEPT ![e].expiry = IF cc.ttl > 0 THEN t + cc.ttl ELSE ZeroTime]
             IN [c |-> [cc EXCEPT !.heap = h7], value |-> h0[e].value, ok |-> TRUE]

\* Get that does not mark the entry as recently used.
GetNoPromote(cc, key, t) ==
  IF key \notin DOMAIN cc.m
    THEN [c |-> cc, value |-> EmptyString, ok |-> FALSE]
    ELSE
      LET e == cc.m[key]
      IN IF IsExpired(cc.heap[e], t)
           THEN [c |-> delete(cc, e), value |-> EmptyString, ok |-> FALSE]
           ELSE [c |-> cc, value |-> cc.heap[e].value, ok |-> TRUE]

\* Get(key) with time.Now() = t; the result is the cache afterwards and the
\* returned (value, ok).
Get(cc, key, t) ==
  IF key \notin DOMAIN cc.m
    THEN [c |-> cc, value |-> EmptyString, ok |-> FALSE]
    ELSE
      LET e == cc.m[key]
          h0 == cc.heap
      IN IF IsExpired(h0[e], t)
           THEN [c |-> delete(cc, e), value |-> EmptyString, ok |-> FALSE]
           ELSE
             LET h1 == [h0 EXCEPT ![h0[e].lruPrev].lruNext = h0[e].lruNext]
                 h2 == [h1 EXCEPT ![h1[e].lruNext].lruPrev = h1[e].lruPrev]
                 h3 == [h2 EXCEPT ![e].lruPrev = HEAD]
                 h4 == [h3 EXCEPT ![e].lruNext = h3[HEAD].lruNext]
                 h5 == [h4 EXCEPT ![h4[HEAD].lruNext].lruPrev = e]
                 h6 == [h5 EXCEPT ![HEAD].lruNext = e]
             IN [c |-> [cc EXCEPT !.heap = h6], value |-> h0[e].value, ok |-> TRUE]

\* --------------------------------------------------------------- Delete
Delete(cc, key) ==
  IF key \notin DOMAIN cc.m
    THEN [c |-> cc, ok |-> FALSE]
    ELSE [c |-> delete(cc, cc.m[key]), ok |-> TRUE]

\* ------------------------------------------------------------------ Len
\* (Len is taken by Sequences.)
CacheLen(cc) == Cardinality(DOMAIN cc.m)

\* ---------------------------------------------------------- list walking
\* The addresses met by following lruNext from c.head up to c.tail
\* (sentinels excluded); the walk gives up after `fuel` hops.
RECURSIVE WalkLruNext(_, _, _)
WalkLruNext(heap, a, fuel) ==
  IF a = TAIL \/ a \notin DOMAIN heap \/ fuel = 0
    THEN <<>>
    ELSE <<a>> \o WalkLruNext(heap, heap[a].lruNext, fuel - 1)

RECURSIVE WalkLruPrev(_, _, _)
WalkLruPrev(heap, a, fuel) ==
  IF a = HEAD \/ a \notin DOMAIN heap \/ fuel = 0
    THEN <<>>
    ELSE <<a>> \o WalkLruPrev(heap, heap[a].lruPrev, fuel - 1)

RECURSIVE WalkExpNext(_, _, _)
WalkExpNext(heap, a, fuel) ==
  IF a = TAIL \/ a \notin DOMAIN heap \/ fuel = 0
    THEN <<>>
    ELSE <<a>> \o WalkExpNext(heap, heap[a].expNext, fuel - 1)

RECURSIVE WalkExpPrev(_, _, _)
WalkExpPrev(heap, a, fuel) ==
  IF a = HEAD \/ a \notin DOMAIN heap \/ fuel = 0
    THEN <<>>
    ELSE <<a>> \o WalkExpPrev(heap, heap[a].expPrev, fuel - 1)

Fuel(cc) == Cardinality(DOMAIN cc.heap) + 2

\* Recency list, most recently used first; age list, newest first.
LruList(cc) == WalkLruNext(cc.heap, cc.heap[HEAD].lruNext, Fuel(cc))
LruListBack(cc) == WalkLruPrev(cc.heap, cc.heap[TAIL].lruPrev, Fuel(cc))
ExpList(cc) == WalkExpNext(cc.heap, cc.heap[HEAD].expNext, Fuel(cc))
ExpListBack(cc) == WalkExpPrev(cc.heap, cc.heap[TAIL].expPrev, Fuel(cc))

Reverse(s) == [i \in 1..Len(s) |-> s[Len(s) + 1 - i]]
Range(s) == {s[i] : i \in DOMAIN s}
NoDup(s) == \A i, j \in DOMAIN s : s[i] = s[j] => i = j

\* The keys of the entries of a list of addresses.
KeysOf(cc, s) == [i \in DOMAIN s |-> cc.heap[s[i]].key]
LruKeys(cc) == KeysOf(cc, LruList(cc))
ExpKeys(cc) == KeysOf(cc, ExpList(cc))

\* ---------------------------------------------------------- the program
NoScenario == [phase |-> "free", puts |-> <<>>, useOrder |-> <<>>, evicted |-> <<>>]

NoOp == [op |-> "New", key |-> EmptyString, value |-> EmptyString, ok |-> FALSE,
         t |-> 1, pre |-> New(0, 0)]

\* A goroutine that is not inside a call, having made n calls so far.
Idle(n) ==
  [pc |-> "idle", op |-> "none", key |-> EmptyString, value |-> EmptyString,
   e |-> NIL, ok |-> FALSE, ret |-> EmptyString, t1 |-> ZeroTime, t2 |-> ZeroTime,
   exit |-> "none", n |-> n]

NoCalls == [t \in Threads |-> Idle(0)]

\* The history of touches.  touched holds the keys of the entries in the
\* cache, the most recently touched first, where a touch is the Put that
\* created the entry or a later Get that returned it; created holds them by
\* the Put that created them, the latest first.
NoTouches == [touched |-> <<>>, created |-> <<>>]

Touch(s, key) == <<key>> \o SelectSeq(s, LAMBDA k : k # key)

Present(s, cc) == SelectSeq(s, LAMBDA k : k \in DOMAIN cc.m)

Init ==
  /\ \E maxSize \in (0 - 1)..MaxCap, ttl \in (0 - 1)..MaxTtl :
       /\ ~NewPanics(maxSize, ttl)
       /\ c = New(maxSize, ttl)
       /\ last = [NoOp EXCEPT !.pre = New(maxSize, ttl)]
  /\ now = 1
  /\ sc = NoScenario
  /\ mu = 0
  /\ th = NoCalls
  /\ lin = c
  /\ hist = NoTouches

\* The clock is read twice inside Put (the expiry stamp, then trim) and may
\* advance between the two reads.  A cache without a size limit (maxSize = 0)
\* is filled up to MaxEntries entries.
CallPut(key, value) ==
  /\ ~c.panic
  /\ c.maxSize = 0 => (key \in DOMAIN c.m \/ CacheLen(c) < MaxEntries)
  /\ \E t2 \in now..(IF now < MaxTime THEN now + 1 ELSE now) :
       /\ c' = Put(c, key, value, now, t2)
       /\ now' = t2
  /\ last' = [op |-> "Put", key |-> key, value |-> value, ok |-> TRUE,
              t |-> now, pre |-> c]
  /\ UNCHANGED <<sc, mu, th, lin>>
  /\ hist' = [touched |-> Present(Touch(hist.touched, key), c'),
              created |-> Present(Touch(hist.created, key), c')]

CallGet(key) ==
  /\ ~c.panic
  /\ LET r == Get(c, key, now)
     IN /\ c' = r.c
        /\ last' = [op |-> "Get", key |-> key, value |-> r.value, ok |-> r.ok,
                    t |-> now, pre |-> c]
  /\ UNCHANGED <<now, sc, mu, th, lin>>
  /\ hist' = [touched |-> Present(IF Get(c, key, now).ok
                                      THEN Touch(hist.touched, key)
                                      ELSE hist.touched, c'),
              created |-> Present(hist.created, c')]

CallDelete(key) ==
  /\ ~c.panic
  /\ LET r == Delete(c, key)
     IN /\ c' = r.c
        /\ last' = [op |-> "Delete", key |-> key, value |-> EmptyString, ok |-> r.ok,
                    t |-> now, pre |-> c]
  /\ UNCHANGED <<now, sc, mu, th, lin>>
  /\ hist' = [touched |-> Present(hist.touched, c'),
              created |-> Present(hist.created, c')]

\* Len that purges the oldest entry, if it has expired, before it counts.
CallLenPurging ==
  /\ ~c.panic
  /\ c' = IF CacheLen(c) > 0 /\ IsExpired(c.heap[c.heap[TAIL].expPrev], now)
            THEN delete(c, c.heap[TAIL].expPrev)
            ELSE c
  /\ last' = [op |-> "Len", key |-> EmptyString, value |-> CacheLen(c'), ok |-> TRUE,
              t |-> now, pre |-> c]
  /\ hist' = [touched |-> Present(hist.touched, c'),
              created |-> Present(hist.created, c')]
  /\ UNCHANGED <<now, sc, mu, th, lin>>

\* Len returns its count in last.value.
CallLen ==
  /\ ~c.panic
  /\ last' = [op |-> "Len", key |-> EmptyString, value |-> CacheLen(c), ok |-> TRUE,
              t |-> now, pre |-> c]
  /\ UNCHANGED <<c, now, sc, mu, th, lin, hist>>

\* The wall clock advances between operations.
Tick ==
  /\ now < MaxTime
  /\ now' = now + 1
  /\ last' = [op |-> "Tick", key |-> EmptyString, value |-> EmptyString, ok |-> FALSE,
              t |-> now, pre |-> c]
  /\ UNCHANGED <<c, sc, mu, th, lin, hist>>

Next ==
  \/ \E key \in Keys, value \in Values : CallPut(key, value)
  \/ \E key \in Keys : CallGet(key)
  \/ \E key \in Keys : CallDelete(key)
  \/ CallLen
  \/ Tick

Spec == Init /\ [][Next]_vars

\* ------------------------------------------------- fill / use / evict
\* The run of TestMaxSize and TestLRU on a cache New(maxSize, 0): distinct
\* keys are Put one after the other (Gets of missing keys in between); once
\* exactly maxSize keys are in, each of them may be read once, in any order;
\* then keys that are not in the cache are Put.  As in the tests every key
\* is stored with itself as its value.  sc.puts lists the seeding
\* Puts, sc.useOrder the keys in the order they were read and sc.evicted,
\* for each later Put, the set of keys that Put removed from the index.
MaxFill == 3

PutKeys == {sc.puts[i].key : i \in DOMAIN sc.puts}

InitFill ==
  /\ \E maxSize \in 1..MaxFill :
       /\ c = New(maxSize, 0)
       /\ last = [NoOp EXCEPT !.pre = New(maxSize, 0)]
  /\ now = 1
  /\ sc = [phase |-> "seed", puts |-> <<>>, useOrder |-> <<>>, evicted |-> <<>>]
  /\ mu = 0
  /\ th = NoCalls
  /\ lin = c
  /\ hist = NoTouches

SeedPut(key) ==
  /\ sc.phase = "seed"
  /\ key \notin PutKeys
  /\ c' = Put(c, key, key, now, now)
  /\ last' = [op |-> "Put", key |-> key, value |-> key, ok |-> TRUE,
              t |-> now, pre |-> c]
  /\ sc' = [sc EXCEPT !.puts = Append(@, [key |-> key, value |-> key])]
  /\ UNCHANGED <<now, mu, th, lin, hist>>

SeedGetMissing(key) ==
  /\ sc.phase = "seed"
  /\ LET r == Get(c, key, now)
     IN /\ ~r.ok
        /\ c' = r.c
        /\ last' = [op |-> "Get", key |-> key, value |-> r.value, ok |-> r.ok,
                    t |-> now, pre |-> c]
  /\ UNCHANGED <<now, sc, mu, th, lin, hist>>

UseGet(key) ==
  /\ sc.phase \in {"seed", "use"}
  /\ Len(sc.puts) = c.maxSize
  /\ key \in PutKeys \ Range(sc.useOrder)
  /\ LET r == Get(c, key, now)
     IN /\ c' = r.c
        /\ last' = [op |-> "Get", key |-> key, value |-> r.value, ok |-> r.ok,
                    t |-> now, pre |-> c]
  /\ sc' = [sc EXCEPT !.phase = "use", !.useOrder = Append(@, key)]
  /\ UNCHANGED <<now, mu, th, lin, hist>>

EvictPut(key) ==
  /\ sc.phase \in {"use", "evict"}
  /\ Len(sc.useOrder) = c.maxSize
  /\ Len(sc.evicted) < c.maxSize
  /\ key \notin DOMAIN c.m
  /\ c' = Put(c, key, key, now, now)
  /\ last' = [op |-> "Put", key |-> key, value |-> key, ok |-> TRUE,
              t |-> now, pre |-> c]
  /\ sc' = [sc EXCEPT !.phase = "evict",
                      !.evicted = Append(@, (DOMAIN c.m) \ (DOMAIN c'.m))]
  /\ UNCHANGED <<now, mu, th, lin, hist>>

NextFill ==
  \/ \E key \in ScenarioKeys : SeedPut(key)
  \/ \E key \in ScenarioKeys : SeedGetMissing(key)
  \/ \E key \in ScenarioKeys : UseGet(key)
  \/ \E key \in ScenarioKeys : EvictPut(key)

SpecFill == InitFill /\ [][NextFill]_vars

\* ------------------------------------------------------- goroutines
\* Several goroutines call Put, Get, Delete and Len.  Every call first
\* takes c.Lock(), then runs its body in steps (the statements between
\* two steps are run together), and last runs the deferred c.Unlock().
\* Other goroutines and the clock may move between any two steps.
NumConcKeys == 2
ConcKeys == 1..NumConcKeys

\* c.Lock() that never waits.
canLockAlways(m) == TRUE

\* c.Lock() goes through when the mutex is unlocked.
canLock(m) == m = 0

\* A function that unlocks by hand and forgets the early return on a
\* missing key.
releasesLockButOnMiss(op, exit) == exit # "miss"

\* defer c.Unlock(): the mutex is released on every return of every call.
releasesLock(op, exit) == TRUE

\* Put up to, and without, its call of trim.
PutLink(cc, key, value, t1) ==
  LET c1 == IF key \in DOMAIN cc.m THEN delete(cc, cc.m[key]) ELSE cc
      h0 == c1.heap
      a == alloc(h0, key)
      e == [key |-> key,
            value |-> value,
            expiry |-> IF cc.ttl > 0 THEN t1 + cc.ttl ELSE ZeroTime,
            lruPrev |-> HEAD,
            lruNext |-> h0[HEAD].lruNext,
            expPrev |-> HEAD,
            expNext |-> h0[HEAD].expNext]
      h1 == (a :> e) @@ h0
      h2 == [h1 EXCEPT ![h1[HEAD].lruNext].lruPrev = a]
      h3 == [h2 EXCEPT ![HEAD].lruNext = a]
      h4 == [h3 EXCEPT ![h3[HEAD].expNext].expPrev = a]
      h5 == [h4 EXCEPT ![HEAD].expNext = a]
  IN IF c1.panic
       THEN c1
       ELSE [c1 EXCEPT !.m = (key :> a) @@ c1.m, !.heap = h5]

\* The end of Get: the entry at address e moves to the head of the LRU list.
touch(cc, e) ==
  LET h0 == cc.heap
      h1 == [h0 EXCEPT ![h0[e].lruPrev].lruNext = h0[e].lruNext]
      h2 == [h1 EXCEPT ![h1[e].lruNext].lruPrev = h1[e].lruPrev]
      h3 == [h2 EXCEPT ![e].lruPrev = HEAD]
      h4 == [h3 EXCEPT ![e].lruNext = h3[HEAD].lruNext]
      h5 == [h4 EXCEPT ![h4[HEAD].lruNext].lruPrev = e]
      h6 == [h5 EXCEPT ![HEAD].lruNext = e]
  IN [cc EXCEPT !.heap = h6]

\* The pointer e still refers to an entry that is linked in the cache.
Linked(cc, e) ==
  /\ e \in DOMAIN cc.heap
  /\ cc.heap[e].lruPrev \in DOMAIN cc.heap
  /\ cc.heap[e].lruNext \in DOMAIN cc.heap
  /\ cc.heap[e].expPrev \in DOMAIN cc.heap
  /\ cc.heap[e].expNext \in DOMAIN cc.heap

InitConc ==
  /\ \E maxSize \in 0..MaxCap, ttl \in 0..MaxTtl : c = New(maxSize, ttl)
  /\ now = 1
  /\ last = [NoOp EXCEPT !.pre = New(0, 0)]
  /\ sc = NoScenario
  /\ mu = 0
  /\ th = NoCalls
  /\ lin = c
  /\ hist = NoTouches

\* A goroutine enters a call.
StartCall(t, op, key, value) ==
  /\ ~c.panic
  /\ th[t].pc = "idle"
  /\ th[t].n < MaxCalls
  /\ th' = [th EXCEPT ![t] = [Idle(th[t].n + 1) EXCEPT
                                !.pc = "lock", !.op = op, !.key = key, !.value = value]]
  /\ UNCHANGED <<c, now, last, sc, mu, lin, hist>>

StartPut(t, key, value) == StartCall(t, "Put", key, value)
StartGet(t, key) == StartCall(t, "Get", key, EmptyString)
StartDelete(t, key) == StartCall(t, "Delete", key, EmptyString)
StartLen(t) == StartCall(t, "Len", EmptyString, EmptyString)

\* c.Lock()
AcquireLock(t) ==
  /\ th[t].pc = "lock"
  /\ canLock(mu)
  /\ mu' = 1
  /\ th' = [th EXCEPT ![t].pc =
              CASE th[t].op = "Put" -> "put"
                [] th[t].op = "Get" -> "get"
                [] th[t].op = "Delete" -> "delete"
                [] OTHER -> "len"]
  /\ UNCHANGED <<c, now, last, sc, lin, hist>>

\* Put: the old entry of the key is deleted, the new one created and linked.
PutInsert(t) ==
  /\ th[t].pc = "put"
  /\ c' = PutLink(c, th[t].key, th[t].value, now)
  /\ th' = [th EXCEPT ![t].pc = IF c'.panic THEN "unlock" ELSE "trim",
                      ![t].t1 = now, ![t].exit = "panic"]
  /\ UNCHANGED <<now, last, sc, mu, lin, hist>>

\* Put: c.trim()
PutTrim(t) ==
  /\ th[t].pc = "trim"
  /\ c' = trim(c, now)
  /\ th' = [th EXCEPT ![t].pc = "unlock", ![t].t2 = now, ![t].ok = TRUE,
                      ![t].exit = "end"]
  /\ UNCHANGED <<now, last, sc, mu, lin, hist>>

\* Get and Delete: e, ok = c.m[key], with the return on a missing key.
Lookup(t) ==
  /\ th[t].pc \in {"get", "delete"}
  /\ th' = [th EXCEPT ![t] =
              IF th[t].key \in DOMAIN c.m
                THEN [@ EXCEPT !.pc = IF th[t].op = "Get" THEN "found" ELSE "remove",
                               !.e = c.m[th[t].key], !.ok = TRUE]
                ELSE [@ EXCEPT !.pc = "unlock", !.ok = FALSE, !.exit = "miss"]]
  /\ UNCHANGED <<c, now, last, sc, mu, lin, hist>>

\* Get: the expiry check, then the purge or the move to the head of the LRU
\* list.  A pointer to an entry that another goroutine unlinked meanwhile
\* makes the call crash.
GetFound(t) ==
  /\ th[t].pc = "found"
  /\ LET e == th[t].e
     IN IF ~Linked(c, e)
          THEN /\ c' = [c EXCEPT !.panic = TRUE]
               /\ th' = [th EXCEPT ![t].pc = "unlock", ![t].exit = "panic"]
          ELSE IF IsExpired(c.heap[e], now)
            THEN /\ c' = delete(c, e)
                 /\ th' = [th EXCEPT ![t].pc = "unlock", ![t].ok = FALSE,
                                     ![t].t1 = now, ![t].exit = "expired"]
            ELSE /\ c' = touch(c, e)
                 /\ th' = [th EXCEPT ![t].pc = "unlock", ![t].ret = c.heap[e].value,
                                     ![t].t1 = now, ![t].exit = "end"]
  /\ UNCHANGED <<now, last, sc, mu, lin, hist>>

\* Delete: c.delete(e)
DeleteFound(t) ==
  /\ th[t].pc = "remove"
  /\ IF ~Linked(c, th[t].e)
       THEN c' = [c EXCEPT !.panic = TRUE]
       ELSE c' = delete(c, th[t].e)
  /\ th' = [th EXCEPT ![t].pc = "unlock", ![t].exit = "end"]
  /\ UNCHANGED <<now, last, sc, mu, lin, hist>>

\* Len: return len(c.m)
LenRead(t) ==
  /\ th[t].pc = "len"
  /\ th' = [th EXCEPT ![t].pc = "unlock", ![t].ret = CacheLen(c), ![t].ok = TRUE,
                      ![t].exit = "end"]
  /\ UNCHANGED <<c, now, last, sc, mu, lin, hist>>

\* What the call of goroutine t does to the cache cc, and what it returns,
\* when it runs as a single step with the clock reads it made.
Atomic(cc, l) ==
  CASE l.op = "Put" ->
         [c |-> Put(cc, l.key, l.value, l.t1, l.t2), ret |-> EmptyString, ok |-> TRUE]
    [] l.op = "Get" ->
         LET r == Get(cc, l.key, l.t1) IN [c |-> r.c, ret |-> r.value, ok |-> r.ok]
    [] l.op = "Delete" ->
         LET r == Delete(cc, l.key) IN [c |-> r.c, ret |-> EmptyString, ok |-> r.ok]
    [] OTHER ->
         [c |-> cc, ret |-> CacheLen(cc), ok |-> TRUE]

\* The call returns and its deferred c.Unlock() runs.
ReleaseLock(t) ==
  /\ th[t].pc = "unlock"
  /\ mu' = IF releasesLock(th[t].op, th[t].exit) THEN 0 ELSE mu
  /\ lin' = Atomic(lin, th[t]).c
  /\ th' = [th EXCEPT ![t] = Idle(th[t].n)]
  /\ UNCHANGED <<c, now, last, sc, hist>>

TickConc ==
  /\ now < MaxTime
  /\ now' = now + 1
  /\ UNCHANGED <<c, last, sc, mu, th, lin, hist>>

Run(t) ==
  \/ PutInsert(t)
  \/ PutTrim(t)
  \/ Lookup(t)
  \/ GetFound(t)
  \/ DeleteFound(t)
  \/ LenRead(t)
  \/ ReleaseLock(t)

NextConc ==
  \/ \E t \in Threads, key \in ConcKeys, value \in Values : StartPut(t, key, value)
  \/ \E t \in Threads, key \in ConcKeys : StartGet(t, key)
  \/ \E t \in Threads, key \in ConcKeys : StartDelete(t, key)
  \/ \E t \in Threads : StartLen(t)
  \/ \E t \in Threads : AcquireLock(t)
  \/ \E t \in Threads : Run(t)
  \/ TickConc

SpecConc == InitConc /\ [][NextConc]_vars

\* The goroutines on the smallest cache on which every return of every
\* call is taken: one entry that expires, and the keys FairKeys.
NumFairKeys == 1
FairKeys == 1..NumFairKeys

InitFair ==
  /\ c = New(1, MaxTtl)
  /\ now = 1
  /\ last = [NoOp EXCEPT !.pre = New(0, 0)]
  /\ sc = NoScenario
  /\ mu = 0
  /\ th = NoCalls
  /\ lin = c
  /\ hist = NoTouches

NextFair ==
  \/ \E t \in Threads, key \in FairKeys : StartPut(t, key, key)
  \/ \E t \in Threads, key \in FairKeys : StartGet(t, key)
  \/ \E t \in Threads, key \in FairKeys : StartDelete(t, key)
  \/ \E t \in Threads : StartLen(t)
  \/ \E t \in Threads : AcquireLock(t)
  \/ \E t \in Threads : Run(t)
  \/ TickConc

\* A fair mutex: a goroutine that keeps finding the mutex unlocked gets it;
\* a goroutine inside a call keeps running.
SpecConcFair ==
  /\ InitFair
  /\ [][NextFair]_vars
  /\ \A t \in Threads : SF_vars(AcquireLock(t)) /\ WF_vars(Run(t))

\* ------------------------------------------------------------ vocabulary
\* "expiry is before the current time t"
ExpiredAt(e, t) == e.expiry # ZeroTime /\ e.expiry < t

\* The entry stored under key k.
EntryOf(cc, k) == cc.heap[cc.m[k]]

\* The sequence s without the element x.
Without(s, x) == SelectSeq(s, LAMBDA y : y # x)

Min(a, b) == IF a <= b THEN a ELSE b

\* ---------------------------------------------------------------- C1
\* C1: for a cache created with maxSize > 0, after every operation the
\* number of entries in the index (what Len returns) is at most maxSize.
C1_BoundedSize ==
  c.maxSize > 0 => CacheLen(c) <= c.maxSize

\* A Put of a new key into a full cache has returned.
C1_Witness ==
  /\ last.op = "Put"
  /\ c.maxSize > 0
  /\ last.key \notin DOMAIN last.pre.m
  /\ CacheLen(last.pre) = c.maxSize
  /\ CacheLen(c) = c.maxSize

\* ---------------------------------------------------------------- C2
\* C2: after every operation the keys of the index are exactly the entries
\* met by walking the recency list and by walking the age list from head to
\* tail, each entry occurs once in each list, the index maps every key to
\* the entry carrying that key, and next and prev links agree.
LinksAgree(cc) ==
  /\ \A a \in (DOMAIN cc.heap) \ {TAIL} :
       /\ cc.heap[a].lruNext \in DOMAIN cc.heap
       /\ cc.heap[cc.heap[a].lruNext].lruPrev = a
       /\ cc.heap[a].expNext \in DOMAIN cc.heap
       /\ cc.heap[cc.heap[a].expNext].expPrev = a
  /\ \A a \in (DOMAIN cc.heap) \ {HEAD} :
       /\ cc.heap[a].lruPrev \in DOMAIN cc.heap
       /\ cc.heap[cc.heap[a].lruPrev].lruNext = a
       /\ cc.heap[a].expPrev \in DOMAIN cc.heap
       /\ cc.heap[cc.heap[a].expPrev].expNext = a

ListsMatchIndex(cc) ==
  /\ \A k \in DOMAIN cc.m : cc.m[k] \in DOMAIN cc.heap /\ cc.heap[cc.m[k]].key = k
  /\ Range(LruList(cc)) = {cc.m[k] : k \in DOMAIN cc.m}
  /\ Range(ExpList(cc)) = {cc.m[k] : k \in DOMAIN cc.m}
  /\ Range(LruKeys(cc)) = DOMAIN cc.m
  /\ Range(ExpKeys(cc)) = DOMAIN cc.m
  /\ NoDup(LruList(cc)) /\ NoDup(LruKeys(cc))
  /\ NoDup(ExpList(cc)) /\ NoDup(ExpKeys(cc))
  /\ LruListBack(cc) = Reverse(LruList(cc))
  /\ ExpListBack(cc) = Reverse(ExpList(cc))

C2_ListsMatchIndex ==
  ListsMatchIndex(c) /\ LinksAgree(c)

\* An entry has been removed from the middle of lists that disagree on
\* the order of the remaining entries.
C2_Witness ==
  /\ last.op \in {"Delete", "Get", "Put"}
  /\ CacheLen(last.pre) = 3
  /\ CacheLen(c) = 2
  /\ LruKeys(c) # ExpKeys(c)
  /\ LruKeys(last.pre)[2] \notin DOMAIN c.m

\* ---------------------------------------------------------------- C3
\* C3: with ttl = 0 and maxSize = n, once n distinct keys are in and each
\* has been read once in some order, every later Put of a key that is not
\* in the cache leaves Len at n and the i-th such Put evicts exactly the
\* i-th key of the read order, which Get then reports as not found.
C3_EvictsInUseOrder ==
  sc.phase = "evict" =>
    /\ CacheLen(c) = c.maxSize
    /\ \A i \in DOMAIN sc.evicted : sc.evicted[i] = {sc.useOrder[i]}
    /\ LET r == Get(c, sc.useOrder[Len(sc.evicted)], now)
       IN ~r.ok /\ r.value = EmptyString

\* Two evictions have followed a read order that differs from the
\* insertion order.
C3_Witness ==
  /\ sc.phase = "evict"
  /\ Len(sc.evicted) >= 2
  /\ sc.useOrder[1] # sc.puts[1].key
  /\ sc.useOrder[2] # sc.puts[2].key
  /\ sc.evicted[2] = {sc.useOrder[2]}

\* ---------------------------------------------------------------- C4
\* C4: with ttl = 0 and maxSize = m > 0, after Put of n distinct keys
\* k1..kn with no successful Get in between, Get reports not-found for
\* k1..k(n-m) and the stored value for k(n-m+1)..kn, and Len is min(n, m).
C4_OldestEvictedFirst ==
  sc.phase = "seed" =>
    LET n == Len(sc.puts)
    IN /\ CacheLen(c) = Min(n, c.maxSize)
       /\ \A j \in 1..n :
            LET r == Get(c, sc.puts[j].key, now)
            IN IF j <= n - c.maxSize
                 THEN ~r.ok /\ r.value = EmptyString
                 ELSE r.ok /\ r.value = sc.puts[j].value

\* Two of four inserted keys have been evicted.
C4_Witness ==
  /\ sc.phase = "seed"
  /\ last.op = "Put"
  /\ Len(sc.puts) = c.maxSize + 2
  /\ c.maxSize >= 2
  /\ sc.puts[1].key \notin DOMAIN c.m
  /\ sc.puts[2].key \notin DOMAIN c.m

\* -------------------------------------------------- more vocabulary
\* Value and expiry of the entry stored under k.
Stored(cc, k) == [value |-> EntryOf(cc, k).value, expiry |-> EntryOf(cc, k).expiry]

\* Every key of ks is stored in c with the value and expiry it had in the
\* cache before the last operation.
Kept(ks) ==
  \A k \in ks : k \in DOMAIN c.m /\ k \in DOMAIN last.pre.m
                /\ Stored(c, k) = Stored(last.pre, k)

LastOf(s) == s[Len(s)]

\* The oldest inserted, the least and the most recently used key.
OldestKey(cc) == LastOf(ExpKeys(cc))
LruKey(cc) == LastOf(LruKeys(cc))
MruKey(cc) == LruKeys(cc)[1]

\* ---------------------------------------------------------------- C5
\* C5: when a Put pushes the size above maxSize and the oldest inserted
\* entry is expired at that moment, that entry is the one evicted and every
\* other entry stays, the least recently used one included; when it is not
\* expired, the least recently used entry is the one evicted.
Overflows ==
  /\ last.op = "Put"
  /\ c.maxSize > 0
  /\ last.key \notin DOMAIN last.pre.m
  /\ CacheLen(last.pre) + 1 > c.maxSize

C6_PutThenGet ==
  last.op = "Put" =>
    /\ last.key \in DOMAIN c.m
    /\ \A t \in now..(MaxTime + MaxTtl) :
         (c.ttl = 0 \/ t <= last.t + c.ttl) =>
           LET r == Get(c, last.key, t)
           IN r.ok /\ r.value = last.value

\* A Put into a full cache of one entry, read back at its deadline.
C6_Witness ==
  /\ last.op = "Put"
  /\ c.maxSize = 1
  /\ c.ttl > 0
  /\ CacheLen(last.pre) = 1
  /\ last.key \notin DOMAIN last.pre.m
  /\ now = last.t + c.ttl
  /\ Get(c, last.key, now).ok

\* ---------------------------------------------------------------- C7
\* C7: Put(k, v) on a key already in the index stores v, puts k at the head
\* of the recency list and of the age list with expiry now + ttl when
\* ttl > 0, evicts no other entry and leaves Len unchanged.
C7_PutExisting ==
  (last.op = "Put" /\ last.key \in DOMAIN last.pre.m) =>
    /\ DOMAIN c.m = DOMAIN last.pre.m
    /\ CacheLen(c) = CacheLen(last.pre)
    /\ Stored(c, last.key) =
         [value |-> last.value,
          expiry |-> IF c.ttl > 0 THEN last.t + c.ttl ELSE ZeroTime]
    /\ LruKeys(c) = <<last.key>> \o Without(LruKeys(last.pre), last.key)
    /\ ExpKeys(c) = <<last.key>> \o Without(ExpKeys(last.pre), last.key)
    /\ Kept((DOMAIN last.pre.m) \ {last.key})

\* The replaced entry had another value and an older expiry and was at the
\* head of neither list.
C7_Witness ==
  /\ last.op = "Put"
  /\ last.key \in DOMAIN last.pre.m
  /\ CacheLen(last.pre) >= 2
  /\ Stored(last.pre, last.key).value # last.value
  /\ Stored(last.pre, last.key).expiry # Stored(c, last.key).expiry
  /\ MruKey(last.pre) # last.key
  /\ ExpKeys(last.pre)[1] # last.key
  /\ MruKey(c) = last.key

\* ---------------------------------------------------------------- C8
\* C8: Delete(k) returns true exactly when k is in the index, expired or
\* not; the entry then leaves the index and both lists, Len drops by one
\* and Get(k) reports not-found.  Otherwise Delete returns false and
\* changes nothing.
C8_Delete ==
  last.op = "Delete" =>
    /\ last.ok = (last.key \in DOMAIN last.pre.m)
    /\ IF last.key \in DOMAIN last.pre.m
         THEN /\ DOMAIN c.m = (DOMAIN last.pre.m) \ {last.key}
              /\ CacheLen(c) = CacheLen(last.pre) - 1
              /\ LruKeys(c) = Without(LruKeys(last.pre), last.key)
              /\ ExpKeys(c) = Without(ExpKeys(last.pre), last.key)
              /\ Kept(DOMAIN c.m)
              /\ ~Get(c, last.key, now).ok
         ELSE c = last.pre

\* An expired entry was deleted from between two others.
C8_Witness ==
  /\ last.op = "Delete"
  /\ last.ok
  /\ CacheLen(last.pre) = 3
  /\ ExpiredAt(EntryOf(last.pre, last.key), now)
  /\ LruKeys(last.pre)[2] = last.key
  /\ CacheLen(c) = 2

\* ---------------------------------------------------------------- C9
\* C9: Get(k) on an entry whose expiry is before the current time returns
\* ("", false) and removes the entry from the index and both lists, so Len
\* drops by one; no Get returns the value of an expired entry.
C9_GetExpired ==
  (last.op = "Get" /\ last.key \in DOMAIN last.pre.m) =>
    IF ExpiredAt(EntryOf(last.pre, last.key), now)
      THEN /\ ~last.ok
           /\ last.value = EmptyString
           /\ DOMAIN c.m = (DOMAIN last.pre.m) \ {last.key}
           /\ CacheLen(c) = CacheLen(last.pre) - 1
           /\ LruKeys(c) = Without(LruKeys(last.pre), last.key)
           /\ ExpKeys(c) = Without(ExpKeys(last.pre), last.key)
           /\ Kept(DOMAIN c.m)
      ELSE /\ last.ok
           /\ last.value = Stored(last.pre, last.key).value

\* The expired entry was the most recently used of several.
C9_Witness ==
  /\ last.op = "Get"
  /\ last.key \in DOMAIN last.pre.m
  /\ ExpiredAt(EntryOf(last.pre, last.key), now)
  /\ CacheLen(last.pre) >= 2
  /\ MruKey(last.pre) = last.key
  /\ ~last.ok

\* ---------------------------------------------------------------- C10
\* C10: with ttl > 0, once the clock has passed the expiry of every entry
\* and as long as no Put occurs, Get of every key reports not-found, and
\* once Get has been called on every key, in whatever order, Len is 0.
AllExpiredAt(cc, t) ==
  \A k \in DOMAIN cc.m : ExpiredAt(EntryOf(cc, k), t)

\* The cache after Get of each key of the sequence ks, in turn.
RECURSIVE GetEach(_, _, _)
GetEach(cc, ks, t) ==
  IF ks = <<>> THEN cc ELSE GetEach(Get(cc, Head(ks), t).c, Tail(ks), t)

KeyOrders ==
  {s \in [1..NumKeys -> Keys] : \A i, j \in 1..NumKeys : s[i] = s[j] => i = j}

C10_FullExpiry ==
  /\ (c.ttl > 0 /\ AllExpiredAt(c, now)) =>
       /\ \A k \in Keys, t \in now..MaxTime :
            LET r == Get(c, k, t) IN ~r.ok /\ r.value = EmptyString
       /\ \A ks \in KeyOrders : CacheLen(GetEach(c, ks, now)) = 0
  /\ (c.ttl > 0 /\ last.op \in {"Get", "Delete", "Len", "Tick"}
        /\ AllExpiredAt(last.pre, last.t)) =>
       /\ AllExpiredAt(c, now)
       /\ last.op = "Get" => ~last.ok

\* One of three entries, all past their expiry, has been asked for.
C10_Witness ==
  /\ c.ttl > 0
  /\ last.op = "Get"
  /\ CacheLen(last.pre) = 3
  /\ AllExpiredAt(last.pre, now)
  /\ ~last.ok
  /\ last.key \in DOMAIN last.pre.m
  /\ CacheLen(c) = 2

\* ---------------------------------------------------------------- C11
\* C11: when several goroutines call Put, Get, Delete and Len, at most one
\* call is inside the critical section at any time; a call that is about
\* to return has changed the cache and got the results exactly as if it
\* had run in one step after the calls that took the lock before it; and
\* whenever the lock is free the cache is the result of those calls run one
\* after the other, with the index, list and size invariants holding.
InCall(t) == th[t].pc \notin {"idle", "lock"}

C11_Atomic ==
  /\ Cardinality({t \in Threads : InCall(t)}) <= 1
  /\ \A t \in Threads :
       th[t].pc = "unlock" =>
         LET a == Atomic(lin, th[t])
         IN c = a.c /\ th[t].ret = a.ret /\ th[t].ok = a.ok
  /\ mu = 0 =>
       /\ c = lin
       /\ ListsMatchIndex(c)
       /\ LinksAgree(c)
       /\ c.maxSize > 0 => CacheLen(c) <= c.maxSize

\* A Put has overfilled the cache and not trimmed it yet, while another
\* goroutine waits for the lock to run its second call.
C11_Witness ==
  \E t, u \in Threads :
    /\ t # u
    /\ th[t].pc = "trim"
    /\ c.maxSize > 0
    /\ CacheLen(c) > c.maxSize
    /\ th[u].pc = "lock"
    /\ th[u].n = 2
    /\ mu = 1

\* ---------------------------------------------------------------- C12
\* C12: every call releases the lock on every return, the early returns of
\* Get and Delete on a missing key and of Get on an expired key included:
\* the lock is free whenever no call is inside its body, a goroutine that
\* has started a call never leaves the others without a step to take, and
\* with a fair lock every started call returns.
LockFreeWhenIdle ==
  (\A t \in Threads : ~InCall(t)) => mu = 0

NoDeadlock ==
  (\E t \in Threads : th[t].pc # "idle") =>
    ENABLED (\E t \in Threads : AcquireLock(t) \/ Run(t))

C12_LockReleased ==
  /\ [](LockFreeWhenIdle /\ NoDeadlock)
  /\ \A t \in Threads : (th[t].pc # "idle") ~> (th[t].pc = "idle")

\* A Get returns early on an expired entry while another goroutine waits
\* for the lock.
C12_Witness ==
  \E t, u \in Threads :
    /\ t # u
    /\ th[t].pc = "unlock"
    /\ th[t].op = "Get"
    /\ th[t].exit = "expired"
    /\ th[u].pc = "lock"

LiveKeys(cc, t) == {k \in DOMAIN cc.m : ~ExpiredAt(EntryOf(cc, k), t)}

C14_LenCountsAll ==
  last.op = "Len" =>
    /\ last.value = Cardinality(DOMAIN last.pre.m)
    /\ last.value = Len(LruList(last.pre))
    /\ last.value >= Cardinality(LiveKeys(last.pre, now))
    /\ c = last.pre

\* Len has counted an expired entry.
C14_Witness ==
  /\ last.op = "Len"
  /\ last.value = 3
  /\ Cardinality(LiveKeys(last.pre, now)) = 1
  /\ CacheLen(c) = 3

\* ---------------------------------------------------------------- C15
\* C15: besides a replaced entry of the same key, a Put removes exactly one
\* other entry when maxSize > 0 and the size after insertion exceeds
\* maxSize, and none otherwise; with maxSize = 0 no Put evicts.  So a Put
\* changes Len by 0 or +1.
C15_PutEvictsAtMostOne ==
  last.op = "Put" =>
    LET removed == (DOMAIN last.pre.m) \ (DOMAIN c.m)
        sizeAfterInsert == Cardinality((DOMAIN last.pre.m) \cup {last.key})
    IN /\ last.key \notin removed
       /\ Cardinality(removed) =
            IF c.maxSize > 0 /\ sizeAfterInsert > c.maxSize THEN 1 ELSE 0
       /\ c.maxSize = 0 => removed = {}
       /\ CacheLen(c) - CacheLen(last.pre) \in {0, 1}
       /\ (DOMAIN c.m) \ (DOMAIN last.pre.m) \subseteq {last.key}

\* A Put into an unbounded cache has grown it to three entries, none
\* removed.
C15_Witness ==
  /\ last.op = "Put"
  /\ c.maxSize = 0
  /\ CacheLen(last.pre) = 2
  /\ CacheLen(c) = 3

\* ---------------------------------------------------------------- C16
\* C16: a Get(k) that finds an entry that is not expired moves it to the
\* head of the recency list and changes nothing else: the age list, every
\* expiry and value, the index and Len stay, and so does the order of the
\* other entries in the recency list.  A Get of a key that is not in the
\* index changes nothing.
C16_GetOnlyPromotes ==
  last.op = "Get" =>
    IF last.key \notin DOMAIN last.pre.m
      THEN c = last.pre /\ ~last.ok
      ELSE ~ExpiredAt(EntryOf(last.pre, last.key), now) =>
             /\ LruKeys(c) = <<last.key>> \o Without(LruKeys(last.pre), last.key)
             /\ ExpList(c) = ExpList(last.pre)
             /\ ExpListBack(c) = ExpListBack(last.pre)
             /\ ExpKeys(c) = ExpKeys(last.pre)
             /\ c.m = last.pre.m
             /\ CacheLen(c) = CacheLen(last.pre)
             /\ Kept(DOMAIN last.pre.m)

\* The entry read was the least recently used of three, was not the newest
\* and has a deadline.
C16_Witness ==
  /\ last.op = "Get"
  /\ last.ok
  /\ CacheLen(last.pre) = 3
  /\ LruKey(last.pre) = last.key
  /\ ExpKeys(last.pre)[1] # last.key
  /\ c.ttl > 0
  /\ last.t > 1
  /\ MruKey(c) = last.key

\* ---------------------------------------------------------------- C17
\* C17: after every public operation the recency list, head to tail, lists
\* the entries in decreasing order of their last touch (the Put that
\* created the entry or a later Get that found it not expired), so its tail
\* is the entry whose last touch is the oldest.
C17_RecencyIsTouchOrder ==
  /\ LruKeys(c) = hist.touched
  /\ Reverse(KeysOf(c, LruListBack(c))) = hist.touched
  /\ CacheLen(c) > 0 => LruKey(c) = hist.touched[Len(hist.touched)]

\* A Get has just touched the entry that was the least recently used of
\* three and is not the newest.
C17_Witness ==
  /\ last.op = "Get"
  /\ last.ok
  /\ Len(hist.touched) = 3
  /\ hist.touched[1] = last.key
  /\ hist.created[1] # last.key
  /\ LruKey(last.pre) = last.key
  /\ LruKeys(c) # ExpKeys(c)

\* ---------------------------------------------------------------- C18
\* C18: after every public operation the age list, head to tail, lists the
\* entries in decreasing order of the time of the Put that created them
\* and, with ttl > 0 under a clock that never goes back, in non-increasing
\* order of expiry: the tail of the age list has the earliest expiry of all
\* entries in the cache.
C18_AgeIsPutOrder ==
  /\ ExpKeys(c) = hist.created
  /\ Reverse(KeysOf(c, ExpListBack(c))) = hist.created
  /\ c.ttl > 0 =>
       /\ \A i, j \in 1..Len(ExpList(c)) :
            i < j => c.heap[ExpList(c)[i]].expiry >= c.heap[ExpList(c)[j]].expiry
       /\ \A k \in DOMAIN c.m :
            EntryOf(c, OldestKey(c)).expiry <= EntryOf(c, k).expiry

\* Three entries put at three different times, read in another order.
C18_Witness ==
  /\ c.ttl > 0
  /\ Len(hist.created) = 3
  /\ c.heap[ExpList(c)[1]].expiry > c.heap[ExpList(c)[2]].expiry
  /\ c.heap[ExpList(c)[2]].expiry > c.heap[ExpList(c)[3]].expiry
  /\ hist.touched # hist.created

\* ---------------------------------------------------------------- C19
\* C19: trim never evicts an entry that is not expired while an expired
\* entry is in the cache: whenever a Put evicts and some entry of the index
\* is expired, the evicted entry is an expired one.
PutEvicted == (DOMAIN last.pre.m) \ (DOMAIN c.m)

TrimFindsEntries(cc) ==
  (cc.maxSize > 0 /\ CacheLen(cc) > cc.maxSize) =>
    /\ cc.heap[TAIL].expPrev \in Range(cc.m)
    /\ cc.heap[TAIL].lruPrev \in Range(cc.m)

SentinelsLinked(cc) ==
  /\ {HEAD, TAIL} \subseteq DOMAIN cc.heap
  /\ {HEAD, TAIL} \cap Range(cc.m) = {}
  /\ cc.heap[HEAD].lruPrev = NIL /\ cc.heap[HEAD].expPrev = NIL
  /\ cc.heap[TAIL].lruNext = NIL /\ cc.heap[TAIL].expNext = NIL
  /\ LET l == <<HEAD>> \o LruList(cc)
         a == <<HEAD>> \o ExpList(cc)
     IN /\ cc.heap[l[Len(l)]].lruNext = TAIL
        /\ cc.heap[a[Len(a)]].expNext = TAIL
  /\ LET l == <<TAIL>> \o LruListBack(cc)
         a == <<TAIL>> \o ExpListBack(cc)
     IN /\ cc.heap[l[Len(l)]].lruPrev = HEAD
        /\ cc.heap[a[Len(a)]].expPrev = HEAD

C20_NoDelistPanic ==
  /\ ~c.panic
  /\ SentinelsLinked(c)
  /\ CacheLen(c) > 0 =>
       /\ c.heap[TAIL].expPrev \in Range(c.m)
       /\ c.heap[TAIL].lruPrev \in Range(c.m)
  /\ \A key \in Keys, value \in Values :
       LET linked == PutLink(c, key, value, now)
       IN /\ TrimFindsEntries(linked)
          /\ ~Put(c, key, value, now, now).panic
          /\ ~Get(c, key, now).c.panic
          /\ ~Delete(c, key).c.panic

\* A Put into a full cache has evicted the entry that was both the oldest
\* and the least recently used, and the sentinels stand.
C20_Witness ==
  /\ last.op = "Put"
  /\ ~c.panic
  /\ c.maxSize = 2
  /\ PutEvicted # {}
  /\ last.pre.heap[TAIL].expPrev = last.pre.heap[TAIL].lruPrev
  /\ last.pre.heap[TAIL].expPrev \notin DOMAIN c.heap
  /\ SentinelsLinked(c)

====
